---- MODULE Spec2Model ----
(***************************************************************************)
(* Model of the CountdownTimer component of src/src/App.tsx.               *)
(*                                                                         *)
(* A text is a sequence of characters ("05:00" is <<"0","5",":","0","0">>), *)
(* each a one-character string; a character outside printable ASCII is     *)
(* written by its escape ("\t") or by its code unit's name ("U+FEFF").      *)
(* A Duration is a record of three integers.                               *)
(* The component state is the five useState cells and the interval ref;    *)
(* timers is the number of intervals alive in the host's timer table and   *)
(* pendingTick the updates an interval callback has queued and React has   *)
(* not rendered yet. clean says that no update lane is left on the         *)
(* component's fiber or on its alternate: setState then computes the next  *)
(* state on the spot, and drops an update that changes nothing; dropped    *)
(* holds the lanes of the dropped updates still in their queues.           *)
(* fireCount, completedCount, ticks, lastOp and prevStatus record the run: *)
(* the beeps played, the Running-to-Completed transitions, the callbacks   *)
(* delivered, the last operation and the status it found; mounted is       *)
(* false once the component was torn down.                                 *)
(***************************************************************************)
EXTENDS Integers, Sequences, FiniteSets, TLC

VARIABLES time, isRunning, isCompleted, showAlert, inputValue,
          intervalRef, timers, effectPending, pendingTick, clean, dropped,
          fireCount, completedCount, ticks, lastOp, prevStatus, mounted

vars == <<time, isRunning, isCompleted, showAlert, inputValue,
          intervalRef, timers, effectPending, pendingTick, clean, dropped,
          fireCount, completedCount, ticks, lastOp, prevStatus, mounted>>

\* Ticks delivered in one run (the interval itself never stops counting).
MaxTicks == 3

-----------------------------------------------------------------------------
(* Text helpers: the JavaScript string and number primitives the code uses *)

TimeState(h, m, s) == [hours |-> h, minutes |-> m, seconds |-> s]

ZeroTime == TimeState(0, 0, 0)

IsZero(t) == t.hours = 0 /\ t.minutes = 0 /\ t.seconds = 0

\* The seconds a Duration stands for.
Total(t) == 3600 * t.hours + 60 * t.minutes + t.seconds

NonNegative(t) == t.hours >= 0 /\ t.minutes >= 0 /\ t.seconds >= 0

DecDigits == <<"0", "1", "2", "3", "4", "5", "6", "7", "8", "9">>

HexLetters == <<"a", "b", "c", "d", "e", "f">>

HexCapitals == <<"A", "B", "C", "D", "E", "F">>

\* The value of character c as a digit, or -1 when it is none.
DigitValue(c) ==
  IF \E i \in 1..10 : DecDigits[i] = c
    THEN (CHOOSE i \in 1..10 : DecDigits[i] = c) - 1
  ELSE IF \E i \in 1..6 : HexLetters[i] = c
    THEN (CHOOSE i \in 1..6 : HexLetters[i] = c) + 9
  ELSE IF \E i \in 1..6 : HexCapitals[i] = c
    THEN (CHOOSE i \in 1..6 : HexCapitals[i] = c) + 9
  ELSE -1

\* The code units JavaScript counts as WhiteSpace or LineTerminator, which
\* trim and parseInt skip.
WhiteSpace ==
  { "\t", "\n", "U+000B", "\f", "\r", " ", "U+00A0", "U+1680",
    "U+2000", "U+2001", "U+2002", "U+2003", "U+2004", "U+2005", "U+2006",
    "U+2007", "U+2008", "U+2009", "U+200A", "U+2028", "U+2029", "U+202F",
    "U+205F", "U+3000", "U+FEFF" }

IsWhite(c) == c \in WhiteSpace

\* String.prototype.split(':'): the empty text gives one empty part.
RECURSIVE split(_)
split(s) ==
  IF \A i \in 1..Len(s) : s[i] # ":"
    THEN <<s>>
    ELSE LET k == CHOOSE i \in 1..Len(s) :
                    s[i] = ":" /\ \A j \in 1..(i - 1) : s[j] # ":"
         IN  <<SubSeq(s, 1, k - 1)>> \o split(SubSeq(s, k + 1, Len(s)))

RECURSIVE trimStart(_)
trimStart(s) ==
  IF s # <<>> /\ IsWhite(Head(s)) THEN trimStart(Tail(s)) ELSE s

RECURSIVE trimEnd(_)
trimEnd(s) ==
  IF s # <<>> /\ IsWhite(s[Len(s)])
    THEN trimEnd(SubSeq(s, 1, Len(s) - 1))
    ELSE s

trim(s) == trimEnd(trimStart(s))

\* The value of the longest prefix of s made of digits of the radix, read
\* left to right; n is the number of digits read.
RECURSIVE ReadDigits(_, _, _, _)
ReadDigits(s, radix, acc, n) ==
  IF s # <<>> /\ DigitValue(Head(s)) >= 0 /\ DigitValue(Head(s)) < radix
    THEN ReadDigits(Tail(s), radix, acc * radix + DigitValue(Head(s)), n + 1)
    ELSE [val |-> acc, n |-> n]

\* parseInt(s) without a radix: leading white space, a sign, a 0x prefix,
\* then digits up to the first character that is none; NaN without digits.
parseInt(s) ==
  LET t    == trimStart(s)
      neg  == t # <<>> /\ Head(t) = "-"
      u    == IF t # <<>> /\ Head(t) \in {"-", "+"} THEN Tail(t) ELSE t
      hex  == Len(u) >= 2 /\ u[1] = "0" /\ u[2] \in {"x", "X"}
      body == IF hex THEN SubSeq(u, 3, Len(u)) ELSE u
      r    == ReadDigits(body, IF hex THEN 16 ELSE 10, 0, 0)
  IN  IF r.n = 0 THEN [nan |-> TRUE, val |-> 0]
      ELSE [nan |-> FALSE, val |-> IF neg THEN -r.val ELSE r.val]

\* x || 0 on a number: NaN and zero are falsy.
OrZero(x) == IF x.nan THEN 0 ELSE x.val

RECURSIVE NatToString(_)
NatToString(n) ==
  IF n < 10 THEN <<DecDigits[n + 1]>>
  ELSE NatToString(n \div 10) \o <<DecDigits[(n % 10) + 1]>>

\* Number.prototype.toString() on an integer.
toString(n) == IF n < 0 THEN <<"-">> \o NatToString(-n) ELSE NatToString(n)

RECURSIVE padStart(_, _, _)
padStart(s, len, c) ==
  IF Len(s) >= len THEN s ELSE padStart(<<c>> \o s, len, c)

-----------------------------------------------------------------------------
(* parseTimeInput and formatTime                                           *)

parsePart(part) == OrZero(parseInt(trim(part)))

\* parseTimeInput reading two parts as hours and minutes.
parseTimeInputTwoPartsAsHours(input) ==
  LET raw   == split(input)
      parts == [i \in 1..Len(raw) |-> parsePart(raw[i])]
  IN  IF Len(parts) = 2 THEN TimeState(parts[1], parts[2], 0)
      ELSE IF Len(parts) = 3 THEN TimeState(parts[1], parts[2], parts[3])
      ELSE ZeroTime

parseTimeInput(input) ==
  LET raw   == split(input)
      parts == [i \in 1..Len(raw) |-> parsePart(raw[i])]
  IN  IF Len(parts) = 2 THEN TimeState(0, parts[1], parts[2])
      ELSE IF Len(parts) = 3 THEN TimeState(parts[1], parts[2], parts[3])
      ELSE ZeroTime

pad2(n) == padStart(toString(n), 2, "0")

\* formatTime without the zero padding.
formatTimeUnpadded(t) ==
  IF t.hours > 0
    THEN toString(t.hours) \o <<":">> \o toString(t.minutes) \o <<":">>
           \o toString(t.seconds)
    ELSE toString(t.minutes) \o <<":">> \o toString(t.seconds)

\* formatTime carrying whole hours out of the minutes.
formatTimeCarries(t) ==
  IF t.hours > 0 \/ t.minutes >= 60
    THEN pad2(t.hours + (t.minutes \div 60)) \o <<":">> \o pad2(t.minutes % 60)
           \o <<":">> \o pad2(t.seconds)
    ELSE pad2(t.minutes) \o <<":">> \o pad2(t.seconds)

formatTime(t) ==
  IF t.hours > 0
    THEN pad2(t.hours) \o <<":">> \o pad2(t.minutes) \o <<":">> \o pad2(t.seconds)
    ELSE pad2(t.minutes) \o <<":">> \o pad2(t.seconds)

-----------------------------------------------------------------------------
(* Inputs                                                                  *)

\* presetButtons: the minutes of the six preset buttons.
PresetMinutes == {1, 5, 10, 15, 30, 60}

\* Texts a user types into the input field.
EditTexts ==
  { <<>>,                                      \* ""
    <<"0", ":", "1">>,                         \* "0:1"
    <<"1", ":", "0">>,                         \* "1:0"
    <<" ", "1", "\t", ":", "U+FEFF", "0", "0">>, \* " 1<tab>:<U+FEFF>00"
    <<"0", ":", "-", "1">>,                    \* "0:-1"
    <<"1", ":", "0", ":", "0">> }              \* "1:0:0"

InitialInput == <<"0", "5", ":", "0", "0">>

-----------------------------------------------------------------------------
(* The interval effect (useEffect on [isRunning, isCompleted])             *)

\* e is [ref, timers]: the interval ref ("null", "live" when it holds the id
\* of a running interval, "cleared" when the id it holds was cleared) and the
\* number of running intervals.
clearInterval(e) ==
  IF e.ref = "live" THEN [ref |-> "cleared", timers |-> e.timers - 1] ELSE e

EffectCleanup(e) == IF e.ref # "null" THEN clearInterval(e) ELSE e

EffectBody(run, comp, e) ==
  IF run /\ ~comp
    THEN [ref |-> "live", timers |-> e.timers + 1]
    ELSE IF e.ref # "null"
           THEN [clearInterval(e) EXCEPT !.ref = "null"]
           ELSE e

\* A re-run of the effect: the previous run's cleanup, then the body.
RunEffect(run, comp, e) == EffectBody(run, comp, EffectCleanup(e))

\* The commit that ends an event handler: React first flushes an effect
\* still pending from an earlier render, then renders the handler's updates
\* and runs the effect again when its dependencies changed.
CommitSync(run, comp) ==
  LET e0 == [ref |-> intervalRef, timers |-> timers]
      e1 == IF effectPending THEN RunEffect(isRunning, isCompleted, e0) ELSE e0
      e2 == IF <<run, comp>> # <<isRunning, isCompleted>>
              THEN RunEffect(run, comp, e1)
              ELSE e1
  IN  /\ intervalRef' = e2.ref
      /\ timers' = e2.timers
      /\ effectPending' = FALSE

-----------------------------------------------------------------------------
(* State                                                                   *)

\* The status the component displays: the isCompleted styling comes first.
StatusOf(run, comp) ==
  IF comp THEN "Completed" ELSE IF run THEN "Running" ELSE "Idle"

Status == StatusOf(isRunning, isCompleted)

\* The useState cells as one record, the argument of the handlers below.
View ==
  [time |-> time, isRunning |-> isRunning, isCompleted |-> isCompleted,
   showAlert |-> showAlert, inputValue |-> inputValue]

\* No update of an interval callback is waiting for its render.
NoTick == [kind |-> "none", prevTime |-> ZeroTime, over |-> {}]

Init ==
  /\ time = TimeState(0, 5, 0)
  /\ isRunning = FALSE
  /\ isCompleted = FALSE
  /\ showAlert = FALSE
  /\ inputValue = InitialInput
  /\ intervalRef = "null"
  /\ timers = 0
  /\ effectPending = FALSE
  /\ pendingTick = NoTick
  /\ clean = TRUE
  /\ dropped = {}
  /\ fireCount = 0
  /\ completedCount = 0
  /\ ticks = 0
  /\ lastOp = "Init"
  /\ prevStatus = "Idle"
  /\ mounted = TRUE

\* The cells after an operation that leaves them as n.
SetCells(n) ==
  /\ time' = n.time
  /\ isRunning' = n.isRunning
  /\ isCompleted' = n.isCompleted
  /\ showAlert' = n.showAlert
  /\ inputValue' = n.inputValue

Record(op) ==
  /\ lastOp' = op
  /\ prevStatus' = Status

-----------------------------------------------------------------------------
(* The interval callback                                                   *)

\* decrement with the minutes borrow giving 60 seconds.
decrementBorrowsSixty(prevTime) ==
  IF prevTime.seconds > 0
    THEN [prevTime EXCEPT !.seconds = prevTime.seconds - 1]
  ELSE IF prevTime.minutes > 0
    THEN [prevTime EXCEPT !.minutes = prevTime.minutes - 1, !.seconds = 60]
  ELSE IF prevTime.hours > 0
    THEN TimeState(prevTime.hours - 1, 59, 60)
  ELSE prevTime

\* The decrement of the setTime updater for a prevTime that is not zero.
decrement(prevTime) ==
  IF prevTime.seconds > 0
    THEN [prevTime EXCEPT !.seconds = prevTime.seconds - 1]
  ELSE IF prevTime.minutes > 0
    THEN [prevTime EXCEPT !.minutes = prevTime.minutes - 1, !.seconds = 59]
  ELSE IF prevTime.hours > 0
    THEN TimeState(prevTime.hours - 1, 59, 59)
  ELSE prevTime

\* tickCells without setIsRunning(false).
tickCellsKeepsRunning(s) ==
  IF IsZero(s.time)
    THEN [s EXCEPT !.isCompleted = TRUE, !.showAlert = TRUE]
    ELSE [s EXCEPT !.time = decrement(s.time)]

\* The cells after the setTime updater ran on s.time.
tickCells(s) ==
  IF IsZero(s.time)
    THEN [s EXCEPT !.isRunning = FALSE, !.isCompleted = TRUE, !.showAlert = TRUE]
    ELSE [s EXCEPT !.time = decrement(s.time)]

\* Whether the updater plays the beep: it looks at prevTime alone.
tickBeeps(s) == IsZero(s.time)

\* The cells after the render of the updates q of a callback. A queued
\* updater runs in the render, on the Duration that was current when it was
\* queued, and its setters are applied last; the setters of an updater that
\* ran inside the callback are ordinary queued updates, and a setter a handler
\* called later (q.over) is applied after them. A setTime a handler called
\* later decides the Duration either way. A render of dropped updates alone
\* changes no cell.
renderCells(s, q) ==
  LET u == tickCells([s EXCEPT !.time = q.prevTime])
      late(c) == q.kind = "status" /\ c \in q.over
  IN  IF q.kind = "dropped" THEN s
      ELSE [s EXCEPT
         !.time        = IF "time" \in q.over THEN s.time ELSE u.time,
         !.isRunning   = IF late("isRunning") THEN s.isRunning ELSE u.isRunning,
         !.isCompleted = IF late("isCompleted") THEN s.isCompleted ELSE u.isCompleted,
         !.showAlert   = IF late("showAlert") THEN s.showAlert ELSE u.showAlert]

\* What the callback's setTime(updater) leaves queued. With an update lane
\* left on the fiber the updater itself is queued for the render. On a clean
\* fiber setTime runs the updater inside the callback: a decrement is queued
\* as computed, a result that is prevTime itself is dropped, and the setters
\* the updater called at {0,0,0} are queued unless none changes its cell.
callbackQueue(s, isClean) ==
  IF ~isClean
    THEN [kind |-> "updater", prevTime |-> s.time, over |-> {}]
  ELSE IF tickCells(s) = s
    THEN NoTick
  ELSE IF tickBeeps(s)
    THEN [kind |-> "status", prevTime |-> s.time, over |-> {}]
  ELSE [kind |-> "updater", prevTime |-> s.time, over |-> {}]

\* The interval callback, run whenever an interval is alive: it calls
\* setTime(updater) and returns. React renders what was queued in a task of
\* its own, queued before the interval can fire again; the event of a control
\* can be dispatched in between. An updater run inside the callback plays its
\* beep there, and its setTime is dropped when it returns prevTime.
Callback ==
  /\ timers > 0
  /\ pendingTick.kind = "none"
  /\ pendingTick' = callbackQueue(View, clean)
  /\ clean' = (clean /\ tickCells(View) = View)
  /\ dropped' = IF clean /\ tickCells(View).time = time
                  THEN dropped \cup {"default"}
                  ELSE dropped
  /\ fireCount' = IF clean /\ tickBeeps(View) THEN fireCount + 1 ELSE fireCount
  /\ Record("Callback")
  /\ UNCHANGED <<time, isRunning, isCompleted, showAlert, inputValue,
                 intervalRef, timers, effectPending, completedCount>>

\* A callback of a run that delivers at most MaxTicks of them.
Tick ==
  /\ ticks < MaxTicks
  /\ ticks' = ticks + 1
  /\ Callback

\* The render of what the callback queued. React first runs an effect still
\* pending from an earlier render, then a queued updater with its setters and
\* beep; the effect of a change of isRunning/isCompleted is run in a later
\* task (TimerEffect). A render that changes no cell bails out and leaves the
\* fiber clean. The render skips an update a handler dropped: React renders
\* again at once for it, which runs the effect and bails out.
Render ==
  /\ pendingTick.kind # "none"
  /\ LET n  == renderCells(View, pendingTick)
         e0 == [ref |-> intervalRef, timers |-> timers]
         e1 == IF effectPending THEN RunEffect(isRunning, isCompleted, e0) ELSE e0
         depsChanged == <<n.isRunning, n.isCompleted>> # <<isRunning, isCompleted>>
         again == "sync" \in dropped
         e2 == IF again /\ depsChanged
                 THEN RunEffect(n.isRunning, n.isCompleted, e1)
                 ELSE e1
     IN  /\ SetCells(n)
         /\ intervalRef' = e2.ref
         /\ timers' = e2.timers
         /\ completedCount' =
              IF Status = "Running" /\ StatusOf(n.isRunning, n.isCompleted) = "Completed"
                THEN completedCount + 1
                ELSE completedCount
         /\ effectPending' = (depsChanged /\ ~again)
         /\ clean' = (again \/ n = View)
  /\ dropped' = {}
  /\ fireCount' =
       IF pendingTick.kind = "updater"
            /\ tickBeeps([View EXCEPT !.time = pendingTick.prevTime])
         THEN fireCount + 1
         ELSE fireCount
  /\ lastOp' = IF pendingTick.kind = "dropped" THEN "Render" ELSE "Tick"
  /\ prevStatus' = Status
  /\ pendingTick' = NoTick
  /\ UNCHANGED ticks

\* The deferred run of the interval effect after a render the callback caused.
TimerEffect ==
  /\ effectPending
  /\ LET e == RunEffect(isRunning, isCompleted,
                        [ref |-> intervalRef, timers |-> timers])
     IN  /\ intervalRef' = e.ref
         /\ timers' = e.timers
  /\ effectPending' = FALSE
  /\ Record("Effect")
  /\ UNCHANGED <<time, isRunning, isCompleted, showAlert, inputValue,
                 pendingTick, clean, dropped, fireCount, completedCount, ticks>>

-----------------------------------------------------------------------------
(* Event handlers: the cells each leaves, then the action                  *)

inputChangeCells(s, value) ==
  IF ~s.isRunning
    THEN [s EXCEPT !.inputValue = value,
                   !.time = parseTimeInput(value),
                   !.isCompleted = FALSE]
    ELSE [s EXCEPT !.inputValue = value]

\* startCells without the zero guard.
startCellsUnguarded(s) == [s EXCEPT !.isRunning = TRUE, !.isCompleted = FALSE]

\* startCells that also hides the notice.
startCellsHidesAlert(s) ==
  IF IsZero(s.time)
    THEN s
    ELSE [s EXCEPT !.isRunning = TRUE, !.isCompleted = FALSE, !.showAlert = FALSE]

\* startCells that restarts the countdown from the InputText.
startCellsRestarts(s) ==
  IF IsZero(s.time)
    THEN s
    ELSE [s EXCEPT !.isRunning = TRUE, !.isCompleted = FALSE,
                   !.time = parseTimeInput(s.inputValue)]

startCells(s) ==
  IF IsZero(s.time)
    THEN s
    ELSE [s EXCEPT !.isRunning = TRUE, !.isCompleted = FALSE]

\* pauseCells as a toggle of isRunning.
pauseCellsToggles(s) == [s EXCEPT !.isRunning = ~s.isRunning]

pauseCells(s) == [s EXCEPT !.isRunning = FALSE]

\* resetCells that keeps the remaining time.
resetCellsKeepsTime(s) ==
  [s EXCEPT !.isRunning = FALSE, !.isCompleted = FALSE, !.showAlert = FALSE]

resetCells(s) ==
  [s EXCEPT !.isRunning = FALSE,
            !.isCompleted = FALSE,
            !.showAlert = FALSE,
            !.time = parseTimeInput(s.inputValue)]

\* presetCells without the isRunning guard.
presetCellsUnguarded(s, minutes) ==
  [s EXCEPT !.time = TimeState(0, minutes, 0),
            !.inputValue = formatTime(TimeState(0, minutes, 0)),
            !.isCompleted = FALSE]

presetCells(s, minutes) ==
  IF ~s.isRunning
    THEN [s EXCEPT !.time = TimeState(0, minutes, 0),
                   !.inputValue = formatTime(TimeState(0, minutes, 0)),
                   !.isCompleted = FALSE]
    ELSE s

\* dismissCells that also clears isCompleted.
dismissCellsClearsCompleted(s) == [s EXCEPT !.showAlert = FALSE, !.isCompleted = FALSE]

dismissCells(s) == [s EXCEPT !.showAlert = FALSE]

\* The cells whose setter each handler calls.
inputChangeWrites(s) ==
  IF ~s.isRunning THEN {"inputValue", "time", "isCompleted"} ELSE {"inputValue"}

startWrites(s) == IF IsZero(s.time) THEN {} ELSE {"isRunning", "isCompleted"}

pauseWrites == {"isRunning"}

resetWrites == {"isRunning", "isCompleted", "showAlert", "time"}

presetWrites(s) ==
  IF ~s.isRunning THEN {"time", "inputValue", "isCompleted"} ELSE {}

dismissWrites == {"showAlert"}

\* The cells a later setter of which matters to the render of q.
decided(q) ==
  IF q.kind = "updater" THEN {"time"}
  ELSE IF q.kind = "status" THEN {"time", "isRunning", "isCompleted", "showAlert"}
  ELSE {}

\* An event handler that leaves the cells as n by the setters of writes.
\* A setTime always passes a new object and so changes its cell. When a
\* setter was called and a cell changes, or an update lane is left on the
\* fiber, React renders at the end of the event and commits with the effect
\* run at once. That render leaves what an interval callback queued, and an
\* update a callback dropped, to a later render of their own, the handler's
\* updates queued behind them. It bails out when no cell changes, which
\* leaves the fiber clean unless such a later render is still due. When the
\* handler calls no setter nothing is rendered; on a clean fiber setters
\* that change nothing are dropped without a render. An effect still pending
\* then stays pending.
Handle(n, op, writes) ==
  LET changed == "time" \in writes \/ n # View
      renders == writes # {} /\ (changed \/ ~clean)
      later   == pendingTick.kind # "none" \/ "default" \in dropped
  IN  /\ SetCells(n)
      /\ IF renders
           THEN CommitSync(n.isRunning, n.isCompleted)
           ELSE UNCHANGED <<intervalRef, timers, effectPending>>
      /\ clean' = IF renders THEN ~changed /\ ~later ELSE clean
      /\ dropped' = IF renders THEN dropped \ {"sync"}
                    ELSE IF writes # {} THEN dropped \cup {"sync"}
                    ELSE dropped
      /\ pendingTick' =
           IF pendingTick.kind # "none"
             THEN [pendingTick EXCEPT !.over = @ \cup (writes \cap decided(pendingTick))]
           ELSE IF renders /\ "default" \in dropped
             THEN [kind |-> "dropped", prevTime |-> ZeroTime, over |-> {}]
           ELSE pendingTick
      /\ Record(op)
      /\ UNCHANGED <<fireCount, completedCount, ticks>>

handleInputChange(value) ==
  Handle(inputChangeCells(View, value), "Edit", inputChangeWrites(View))

handleStart == Handle(startCells(View), "Start", startWrites(View))

handlePause == Handle(pauseCells(View), "Pause", pauseWrites)

handleReset == Handle(resetCells(View), "Reset", resetWrites)

handlePreset(minutes) ==
  Handle(presetCells(View, minutes), "Preset", presetWrites(View))

\* The Dismiss button of the alert modal, rendered only while showAlert.
Dismiss ==
  /\ showAlert
  /\ Handle(dismissCells(View), "Dismiss", dismissWrites)

\* Teardown: React runs an effect still pending, then the cleanup of the
\* effect's last run; after it no handler, render or effect of the component
\* runs.
Unmount ==
  /\ mounted
  /\ mounted' = FALSE
  /\ LET e0 == [ref |-> intervalRef, timers |-> timers]
         e1 == IF effectPending THEN RunEffect(isRunning, isCompleted, e0) ELSE e0
         e2 == EffectCleanup(e1)
     IN  /\ intervalRef' = e2.ref
         /\ timers' = e2.timers
  /\ effectPending' = FALSE
  /\ pendingTick' = NoTick
  /\ Record("Unmount")
  /\ UNCHANGED <<time, isRunning, isCompleted, showAlert, inputValue,
                 clean, dropped, fireCount, completedCount, ticks>>

\* The component stays mounted through every step but Unmount.
Mounted == mounted /\ mounted' = mounted

\* The input left enabled in every status.
inputNeverDisabled == FALSE

\* The disabled attributes of the rendered controls: a disabled control
\* delivers no event to its handler. The Reset button is never disabled.
inputDisabled == isRunning

startDisabled == isRunning \/ IsZero(time)

pauseDisabled == ~isRunning

presetDisabled == isRunning

\* The user's gestures on the rendered controls.
Edit(value) == ~inputDisabled /\ handleInputChange(value)

Start == ~startDisabled /\ handleStart

Pause == ~pauseDisabled /\ handlePause

Preset(minutes) == ~presetDisabled /\ handlePreset(minutes)

\* The rendered component: the interval, the effect and the user's gestures.
Next ==
  \/ Mounted /\ Tick
  \/ Mounted /\ Render
  \/ Mounted /\ TimerEffect
  \/ Mounted /\ \E value \in EditTexts : Edit(value)
  \/ Mounted /\ Start
  \/ Mounted /\ Pause
  \/ Mounted /\ handleReset
  \/ Mounted /\ \E minutes \in PresetMinutes : Preset(minutes)
  \/ Mounted /\ Dismiss
  \/ Unmount

Spec == Init /\ [][Next]_vars

-----------------------------------------------------------------------------
(* The handlers on their own: each run in any state, as when an event is    *)
(* dispatched to it past the disabled attribute of its control              *)

HandlerNext ==
  \/ Mounted /\ Tick
  \/ Mounted /\ Render
  \/ Mounted /\ TimerEffect
  \/ Mounted /\ \E value \in EditTexts : handleInputChange(value)
  \/ Mounted /\ handleStart
  \/ Mounted /\ handlePause
  \/ Mounted /\ handleReset
  \/ Mounted /\ \E minutes \in PresetMinutes : handlePreset(minutes)
  \/ Mounted /\ Dismiss
  \/ Unmount

HandlerSpec == Init /\ [][HandlerNext]_vars

-----------------------------------------------------------------------------
(* The callback alone, from every running countdown of a bounded range     *)

MaxHours == 1

MaxField == 61

\* A countdown typed as text and started: any non-zero Duration in range.
TickInit ==
  /\ time \in { TimeState(h, m, sec) :
                  h \in 0..MaxHours, m \in 0..MaxField, sec \in 0..MaxField }
  /\ ~IsZero(time)
  /\ isRunning = TRUE
  /\ isCompleted = FALSE
  /\ showAlert = FALSE
  /\ inputValue = formatTime(time)
  /\ intervalRef = "live"
  /\ timers = 1
  /\ effectPending = FALSE
  /\ pendingTick = NoTick
  /\ clean = FALSE
  /\ dropped = {}
  /\ fireCount = 0
  /\ completedCount = 0
  /\ ticks = 0
  /\ lastOp = "Start"
  /\ prevStatus = "Idle"
  /\ mounted = TRUE

TickNext ==
  \/ Mounted /\ Tick
  \/ Mounted /\ Render
  \/ Mounted /\ TimerEffect

TickSpec == TickInit /\ [][TickNext]_vars

-----------------------------------------------------------------------------
(* A started countdown left to its interval: no Pause, no Reset            *)

\* The Durations the Parser gives on the typed texts and the presets give.
ProducedTimes ==
  { parseTimeInput(v) : v \in EditTexts }
    \cup { TimeState(0, m, 0) : m \in PresetMinutes }

\* A countdown just started on a produced Duration, the InputText being the
\* text typed or the text the preset wrote.
LiveInit ==
  /\ \/ \E value \in EditTexts :
          inputValue = value /\ time = parseTimeInput(value)
     \/ \E minutes \in PresetMinutes :
          /\ time = TimeState(0, minutes, 0)
          /\ inputValue = formatTime(TimeState(0, minutes, 0))
  /\ time \in ProducedTimes
  /\ ~IsZero(time)
  /\ isRunning = TRUE
  /\ isCompleted = FALSE
  /\ showAlert = FALSE
  /\ intervalRef = "live"
  /\ timers = 1
  /\ effectPending = FALSE
  /\ pendingTick = NoTick
  /\ clean = FALSE
  /\ dropped = {}
  /\ fireCount = 0
  /\ completedCount = 0
  /\ ticks = 0
  /\ lastOp = "Start"
  /\ prevStatus = "Idle"
  /\ mounted = TRUE

\* The callback, delivered for as long as an interval is alive; callbacks
\* are not counted here, and at most MaxTicks of them find {0,0,0}.
LiveTick ==
  /\ fireCount < MaxTicks
  /\ Callback
  /\ UNCHANGED ticks

LiveNext ==
  \/ Mounted /\ LiveTick
  \/ Mounted /\ Render
  \/ Mounted /\ TimerEffect

\* The interval keeps delivering its callback and React runs deferred effects.
LiveSpec ==
  /\ LiveInit
  /\ [][LiveNext]_vars
  /\ WF_vars(Mounted /\ LiveTick)
  /\ WF_vars(Mounted /\ Render)
  /\ WF_vars(Mounted /\ TimerEffect)

-----------------------------------------------------------------------------
(* The Parser on texts built from parts of known value                     *)

MaxParts == 4

\* Part texts with the number JavaScript reads from each (value) and whether
\* the trimmed text is a decimal numeral, signed or not (numeral).
PartCases ==
  { [text |-> <<>>,                value |-> 0,  numeral |-> FALSE],   \* ""
    [text |-> <<"a">>,             value |-> 0,  numeral |-> FALSE],   \* "a"
    [text |-> <<"7">>,             value |-> 7,  numeral |-> TRUE],    \* "7"
    [text |-> <<"0", "5">>,        value |-> 5,  numeral |-> TRUE],    \* "05"
    [text |-> <<"9", "9">>,        value |-> 99, numeral |-> TRUE],    \* "99"
    [text |-> <<"U+3000", "1", "\t">>, value |-> 1, numeral |-> TRUE], \* "<U+3000>1<tab>"
    [text |-> <<"-", "2">>,        value |-> -2, numeral |-> TRUE],    \* "-2"
    [text |-> <<"1", "a">>,        value |-> 1,  numeral |-> FALSE],   \* "1a"
    [text |-> <<"0", "x", "1", "0">>, value |-> 16, numeral |-> FALSE] } \* "0x10"

\* The parts of f written with ':' between them.
RECURSIVE JoinParts(_)
JoinParts(f) ==
  IF Len(f) = 1 THEN f[1].text
  ELSE f[1].text \o <<":">> \o JoinParts(Tail(f))

\* The first edit of a session, on a text of 1..MaxParts parts.
ParseNext ==
  /\ Mounted
  /\ lastOp = "Init"
  /\ \E n \in 1..MaxParts :
       \E f \in [1..n -> PartCases] : Edit(JoinParts(f))

ParseSpec == Init /\ [][ParseNext]_vars

-----------------------------------------------------------------------------
(* The display and the preset texts, from Durations of one to three digits *)

\* Component values of one, two and three digits.
ShownValues == {0, 1, 9, 10, 99, 100}

\* Idle on a Duration just typed as its own display text.
FormatInit ==
  /\ time \in { TimeState(h, m, sec) :
                  h \in ShownValues, m \in ShownValues, sec \in ShownValues }
  /\ isRunning = FALSE
  /\ isCompleted = FALSE
  /\ showAlert = FALSE
  /\ inputValue = formatTime(time)
  /\ intervalRef = "null"
  /\ timers = 0
  /\ effectPending = FALSE
  /\ pendingTick = NoTick
  /\ clean = FALSE
  /\ dropped = {}
  /\ fireCount = 0
  /\ completedCount = 0
  /\ ticks = 0
  /\ lastOp = "Edit"
  /\ prevStatus = "Idle"
  /\ mounted = TRUE

FormatNext ==
  \/ Mounted /\ Tick
  \/ Mounted /\ Render
  \/ Mounted /\ TimerEffect
  \/ Mounted /\ Start
  \/ Mounted /\ Pause
  \/ Mounted /\ handleReset
  \/ Mounted /\ \E minutes \in PresetMinutes : Preset(minutes)

FormatSpec == FormatInit /\ [][FormatNext]_vars

-----------------------------------------------------------------------------
(* One countdown with Start, Pause and the interval only                   *)

\* Idle on a Duration just typed, short enough to elapse within MaxTicks.
PauseInit ==
  /\ time \in { TimeState(h, m, sec) : h \in 0..1, m \in 0..1, sec \in 0..MaxTicks }
  /\ isRunning = FALSE
  /\ isCompleted = FALSE
  /\ showAlert = FALSE
  /\ inputValue = formatTime(time)
  /\ intervalRef = "null"
  /\ timers = 0
  /\ effectPending = FALSE
  /\ pendingTick = NoTick
  /\ clean = FALSE
  /\ dropped = {}
  /\ fireCount = 0
  /\ completedCount = 0
  /\ ticks = 0
  /\ lastOp = "Edit"
  /\ prevStatus = "Idle"
  /\ mounted = TRUE

PauseNext ==
  \/ Mounted /\ Start
  \/ Mounted /\ Pause
  \/ Mounted /\ Tick
  \/ Mounted /\ Render
  \/ Mounted /\ TimerEffect

PauseSpec == PauseInit /\ [][PauseNext]_vars

-----------------------------------------------------------------------------
(* Properties                                                              *)

\* C1: in every reachable state isRunning and isCompleted are not both true.
RunningCompletedExclusive == ~(isRunning /\ isCompleted)

\* The callback has just completed a countdown.
JustCompleted == lastOp = "Tick" /\ prevStatus = "Running" /\ isCompleted

\* C2: a Tick that finds a non-zero Duration while Running leaves the status
\* Running, and from {0,0,1} it gives {0,0,0}; the status goes from Running
\* to Completed only by a Tick that finds {0,0,0}, and that Tick leaves the
\* Duration at {0,0,0}.
TickCompletesOnlyAtZero ==
  [][ /\ (lastOp' = "Tick" /\ Status = "Running" /\ ~IsZero(time))
          => Status' = "Running"
      /\ (lastOp' = "Tick" /\ Status = "Running" /\ time = TimeState(0, 0, 1))
          => time' = ZeroTime
      /\ (Status = "Running" /\ Status' = "Completed")
          => (lastOp' = "Tick" /\ IsZero(time) /\ time' = ZeroTime) ]_vars

\* C3: at every point the Notifier has fired as often as the status went
\* from Running to Completed.
FiresOncePerCompletion == fireCount = completedCount

\* C4: a Tick that finds a non-zero Duration with non-negative components
\* while Running takes one second off the total and leaves the status Running;
\* {0,1,0} becomes {0,0,59} and {1,0,0} becomes {0,59,59}.
TickTakesOneSecond ==
  [][ (lastOp' = "Tick" /\ Status = "Running" /\ ~IsZero(time) /\ NonNegative(time))
        => /\ Total(time') = Total(time) - 1
           /\ NonNegative(time')
           /\ Status' = "Running"
           /\ (time = TimeState(0, 1, 0) => time' = TimeState(0, 0, 59))
           /\ (time = TimeState(1, 0, 0) => time' = TimeState(0, 59, 59)) ]_vars

\* A Tick has just borrowed from the hours.
BorrowedFromHours ==
  lastOp = "Tick" /\ Status = "Running" /\ time = TimeState(0, 59, 59) /\ ticks = 1

\* C5: Start on Duration {0,0,0}, or while Running, changes neither status,
\* Duration nor InputText; otherwise it gives Running with Duration unchanged.
StartGuarded ==
  [][ lastOp' = "Start"
        => /\ time' = time
           /\ inputValue' = inputValue
           /\ IF IsZero(time) \/ Status = "Running"
                THEN isRunning' = isRunning /\ isCompleted' = isCompleted
                ELSE Status' = "Running" ]_vars

\* Start was refused on {0,0,0} while Idle.
StartRefusedAtZero ==
  lastOp = "Start" /\ prevStatus = "Idle" /\ Status = "Idle" /\ IsZero(time)

\* C6: a preset selected while Running changes neither Duration, InputText
\* nor status.
PresetRejectedWhileRunning ==
  [][ (lastOp' = "Preset" /\ Status = "Running")
        => /\ time' = time
           /\ inputValue' = inputValue
           /\ isRunning' = isRunning
           /\ isCompleted' = isCompleted ]_vars

\* A preset was selected while Running.
PresetWhileRunning == lastOp = "Preset" /\ prevStatus = "Running"

\* C7: no input edit takes effect while Running: an edit dispatched while
\* Running changes neither Duration, status nor InputText, and no step taken
\* while Running changes InputText, so that a Reset re-derives Duration from
\* the text as it was when the countdown started.
EditIgnoredWhileRunning ==
  [][ /\ (lastOp' = "Edit" /\ Status = "Running")
          => /\ time' = time
             /\ isRunning' = isRunning
             /\ isCompleted' = isCompleted
             /\ inputValue' = inputValue
      /\ Status = "Running" => inputValue' = inputValue ]_vars

\* A countdown typed as "0:1" ran into its last second with the input
\* disabled, and Reset gave back the Duration of that text.
ResetAfterRunningOnTypedText ==
  /\ lastOp = "Reset"
  /\ prevStatus = "Running"
  /\ ticks > 0
  /\ fireCount = 0
  /\ inputValue = <<"0", ":", "1">>
  /\ time = TimeState(0, 0, 1)

\* C8: from Completed, every operation but Reset leaves Completed.
CompletedUntilReset ==
  [][ (Status = "Completed" /\ lastOp' # "Reset") => Status' = "Completed" ]_vars

\* C9: Reset gives Idle with isCompleted cleared, Duration the Parser's
\* result on the InputText, and the InputText unchanged.
ResetRederives ==
  [][ lastOp' = "Reset"
        => /\ Status' = "Idle"
           /\ ~isRunning'
           /\ ~isCompleted'
           /\ time' = parseTimeInput(inputValue)
           /\ inputValue' = inputValue ]_vars

\* Reset was pressed while Running, after ticks moved Duration off the text.
ResetWhileRunning ==
  /\ lastOp = "Reset"
  /\ prevStatus = "Running"
  /\ ticks > 0
  /\ time = TimeState(0, 1, 0)

\* C10 as stated: a visible notice stays visible under all but Dismiss.
NoticeUntilDismiss ==
  [][ (showAlert /\ lastOp' # "Dismiss") => showAlert' ]_vars

\* C10: a visible notice stays visible under Start, Pause, Tick, a preset
\* selection and an input edit; Dismiss and Reset hide it.
NoticeUntilDismissOrReset ==
  [][ showAlert
        => IF lastOp' \in {"Dismiss", "Reset"} THEN ~showAlert' ELSE showAlert' ]_vars

\* The notice is still up on a countdown restarted after a preset.
NoticeOverNewCountdown ==
  showAlert /\ lastOp = "Start" /\ Status = "Running"


\* C11: Dismiss hides the notice and changes neither isRunning, isCompleted,
\* Duration nor InputText.
DismissOnlyHides ==
  [][ lastOp' = "Dismiss"
        => /\ ~showAlert'
           /\ isRunning' = isRunning
           /\ isCompleted' = isCompleted
           /\ time' = time
           /\ inputValue' = inputValue ]_vars

\* The notice was dismissed while Completed, and the status is still Completed.
DismissedWhileCompleted ==
  lastOp = "Dismiss" /\ prevStatus = "Completed" /\ Status = "Completed"

\* C12: Pause changes neither Duration nor InputText, takes Running to Idle,
\* and while Idle changes no cell at all.
PauseKeepsTime ==
  [][ lastOp' = "Pause"
        => /\ time' = time
           /\ inputValue' = inputValue
           /\ (Status = "Running" => Status' = "Idle")
           /\ (Status = "Idle"
                 => /\ Status' = "Idle"
                    /\ isRunning' = isRunning
                    /\ isCompleted' = isCompleted
                    /\ showAlert' = showAlert) ]_vars

\* A countdown was paused after some ticks, short of its typed Duration.
PausedMidway ==
  /\ lastOp = "Pause"
  /\ prevStatus = "Running"
  /\ Status = "Idle"
  /\ ticks > 0
  /\ time # parseTimeInput(inputValue)

\* C13: an interval is alive exactly while the status is Running, never more
\* than one, and a Tick that finds the status Idle or Completed changes
\* neither Duration nor the Notifier's count.
ArmedExactlyWhileRunning ==
  /\ [](timers <= 1)
  /\ []((timers = 1) <=> (mounted /\ Status = "Running"))
  /\ [][ (lastOp' = "Tick" /\ Status # "Running")
           => (time' = time /\ fireCount' = fireCount) ]_vars


\* C14: a Running countdown whose Ticks keep firing, with no Pause or Reset,
\* eventually is Completed with the Notifier fired.
CountdownElapses ==
  (Status = "Running") ~> (Status = "Completed" /\ fireCount > 0)

\* C15: in every reachable state hours, minutes and seconds are non-negative.
DurationNonNegative == NonNegative(time)


\* The places of the ':' in text s, and its k-th field as the text between
\* the (k-1)-th and the k-th of them.
Colons(s) == { i \in 1..Len(s) : s[i] = ":" }

ColonAt(s, k) ==
  IF k = 0 THEN 0
  ELSE IF k > Cardinality(Colons(s)) THEN Len(s) + 1
  ELSE CHOOSE i \in Colons(s) : Cardinality({ j \in Colons(s) : j < i }) = k - 1

FieldText(s, k) == SubSeq(s, ColonAt(s, k - 1) + 1, ColonAt(s, k) - 1)

CaseOf(text) == CHOOSE c \in PartCases : c.text = text

\* What a part counts as: the number read from its start.
ReadValue(s, k) == CaseOf(FieldText(s, k)).value

\* What a part counts as when every text that is no numeral counts as 0.
NumeralValue(s, k) ==
  IF CaseOf(FieldText(s, k)).numeral THEN CaseOf(FieldText(s, k)).value ELSE 0

\* C16 as stated: one ':' gives {0, part0, part1}, two give {part0, part1,
\* part2}, any other count gives {0,0,0}; a part that is a numeral counts as
\* its number, any other part as 0.
ParserByPartCount ==
  lastOp = "Edit" =>
    time = IF Cardinality(Colons(inputValue)) = 1
             THEN TimeState(0, NumeralValue(inputValue, 1), NumeralValue(inputValue, 2))
           ELSE IF Cardinality(Colons(inputValue)) = 2
             THEN TimeState(NumeralValue(inputValue, 1), NumeralValue(inputValue, 2),
                            NumeralValue(inputValue, 3))
           ELSE ZeroTime

\* C16: one ':' gives {0, part0, part1}, two give {part0, part1, part2}, any
\* other count gives {0,0,0}; a part counts as the integer read from its
\* start after trimming (a sign, then decimal digits or, after 0x, the
\* hexadecimal digits; the rest ignored), as 0 when there is none.
ParserByPartCountLeadingInteger ==
  lastOp = "Edit" =>
    time = IF Cardinality(Colons(inputValue)) = 1
             THEN TimeState(0, ReadValue(inputValue, 1), ReadValue(inputValue, 2))
           ELSE IF Cardinality(Colons(inputValue)) = 2
             THEN TimeState(ReadValue(inputValue, 1), ReadValue(inputValue, 2),
                            ReadValue(inputValue, 3))
           ELSE ZeroTime

\* "1a:99" was typed and read as {0,1,99}.
ParsedLeadingInteger ==
  /\ lastOp = "Edit"
  /\ inputValue = <<"1", "a", ":", "9", "9">>
  /\ time = TimeState(0, 1, 99)


\* The number a text of decimal digits spells.
RECURSIVE DecimalValue(_)
DecimalValue(f) ==
  IF f = <<>> THEN 0
  ELSE 10 * DecimalValue(SubSeq(f, 1, Len(f) - 1)) + DigitValue(f[Len(f)])

\* Field f shows n: decimal digits spelling n, two of them at least, with a
\* leading zero only to make up the two.
FieldShows(f, n) ==
  /\ Len(f) >= 2
  /\ \A i \in 1..Len(f) : DigitValue(f[i]) \in 0..9
  /\ DecimalValue(f) = n
  /\ (Len(f) > 2 => f[1] # "0")

\* The text the display region shows.
Display == formatTime(time)

\* C17: the display has the two fields MM:SS exactly when hours = 0 and the
\* three fields HH:MM:SS otherwise, each zero-padded to two digits at least;
\* {0,5,0} shows "05:00" and {1,0,0} shows "01:00:00".
DisplayFields ==
  /\ Cardinality(Colons(Display)) = (IF time.hours = 0 THEN 1 ELSE 2)
  /\ IF time.hours = 0
       THEN /\ FieldShows(FieldText(Display, 1), time.minutes)
            /\ FieldShows(FieldText(Display, 2), time.seconds)
       ELSE /\ FieldShows(FieldText(Display, 1), time.hours)
            /\ FieldShows(FieldText(Display, 2), time.minutes)
            /\ FieldShows(FieldText(Display, 3), time.seconds)
  /\ (time = TimeState(0, 5, 0) => Display = <<"0", "5", ":", "0", "0">>)
  /\ (time = TimeState(1, 0, 0)
        => Display = <<"0", "1", ":", "0", "0", ":", "0", "0">>)

\* After a Tick, three fields of two, three and two digits are on display.
ThreeFieldsShown ==
  lastOp = "Tick" /\ time = TimeState(1, 100, 98) /\ Len(Display) = 9


\* A preset was just selected and honored.
PresetHonored == lastOp = "Preset" /\ prevStatus # "Running"

\* C20: parsing the display text of a Duration gives the Duration back; after
\* a preset of m minutes the InputText parses to {0,m,0} (the 60-minute preset
\* is kept as "60:00"), and a Reset then restores exactly {0,m,0}.
FormatParseRoundTrip ==
  /\ [](NonNegative(time) => parseTimeInput(formatTime(time)) = time)
  /\ [](PresetHonored
          => /\ time.hours = 0 /\ time.seconds = 0
             /\ time.minutes \in PresetMinutes
             /\ parseTimeInput(inputValue) = time
             /\ (time.minutes = 60 => inputValue = <<"6", "0", ":", "0", "0">>))
  /\ [][ (lastOp' = "Reset" /\ PresetHonored) => time' = time ]_vars
  /\ [][ (lastOp' = "Reset" /\ inputValue = <<"6", "0", ":", "0", "0">>)
           => time' = TimeState(0, 60, 0) ]_vars

\* The 60-minute preset ran for some ticks and Reset restored {0,60,0}.
ResetRestoredHourPreset ==
  /\ lastOp = "Reset"
  /\ prevStatus = "Running"
  /\ ticks > 0
  /\ time = TimeState(0, 60, 0)
  /\ inputValue = <<"6", "0", ":", "0", "0">>


\* C18: whenever the status is Completed, Duration is {0,0,0}, and Start
\* never takes Completed to Running.
CompletedAtZero ==
  /\ [](Status = "Completed" => time = ZeroTime)
  /\ [][ (Status = "Completed" /\ lastOp' = "Start") => Status' # "Running" ]_vars

\* The seconds of the Duration as typed (the InputText does not change here).
TypedSeconds == Total(parseTimeInput(inputValue))

\* The ticks delivered and rendered.
Rendered == IF pendingTick.kind # "none" THEN ticks - 1 ELSE ticks

\* C19: with Start, Pause and Ticks only, the ticks delivered and rendered and
\* the time left always add up to the N seconds typed, the status becomes
\* Completed on tick N+1, and neither Pause nor Start changes Duration.
PauseLosesNoTime ==
  /\ [](Status # "Completed" => Total(time) + Rendered = TypedSeconds)
  /\ [][ (Status # "Completed" /\ Status' = "Completed")
           => ticks' = TypedSeconds + 1 ]_vars
  /\ [][ lastOp' \in {"Pause", "Start"} => time' = time ]_vars

\* A countdown of at least two seconds completed, on tick N+1.
CompletedOnTickAfterLast ==
  /\ Status = "Completed"
  /\ lastOp = "Tick"
  /\ TypedSeconds >= 2
  /\ ticks = TypedSeconds + 1

====
